---- MODULE Spec2Model ----
(***************************************************************************)
(* Garimpo Mega-Sena: the Monte Carlo simulation engine                    *)
(* (handleRunSimulation), the history importer (handleFileUpload,          *)
(* handleRestoreDefaultHistory) and the combinatorics helper of App.       *)
(*                                                                         *)
(* JavaScript runs a handler to completion: between two awaits of          *)
(* handleRunSimulation nothing else runs.  The variable pc is the place    *)
(* of the one simulation handler; user actions are enabled only while pc   *)
(* is "idle" (no handler on the stack) or "await" (the handler is          *)
(* suspended in line 165).                                                 *)
(***************************************************************************)
EXTENDS Integers, Sequences, FiniteSets, TLC

VARIABLES
    \* React state of App (lines 83-94)
    dozensToBet, simulationsToRun, isSimulating, simulationProgress,
    simulationResult, megaSenaHistory,
    \* the running handleRunSimulation: the values its closure captured ...
    pc, runN, runK,
    \* ... and its locals (lines 132-145)
    sorteioGabarito, senaJogos, quinaJogos, quadraJogos, i, chunkEnd, j,
    jogoSimulado, lastAcertos,
    \* observers of the run: tickets drawn and classified, batches begun,
    \* progress publications, yields taken, the previous published value
    drawn, batches, published, yields, prevProgress,
    \* the importer: the text the FileReader is reading, the last alert
    pendingText, lastAlert,
    \* the betDetails memo (lines 97-104): its place, its values ...
    betPc, TOTAL_COMBINACOES_SENA, numeroDeApostas, probabilidadeSena,
    \* ... and the call of combinations it is in (lines 25-34): the arguments,
    \* the loop's i and res, and whether every division so far came out whole
    combN, combK, combI, combRes, combExact

simVars == <<dozensToBet, simulationsToRun, isSimulating, simulationProgress,
             simulationResult, pc, runN, runK, sorteioGabarito, senaJogos,
             quinaJogos, quadraJogos, i, chunkEnd, j, jogoSimulado, lastAcertos,
             drawn, batches, published, yields, prevProgress>>

importVars == <<megaSenaHistory, pendingText, lastAlert>>

betVars == <<betPc, TOTAL_COMBINACOES_SENA, numeroDeApostas, probabilidadeSena,
             combN, combK, combI, combRes, combExact>>

vars == <<simVars, importVars, betVars>>

----------------------------------------------------------------------------
(* Program constants *)

CHUNK_SIZE == 10000

GABARITO_SIZE == 6

UNIVERSE_MAX == 60

MIN_DOZENS == 6

MAX_DOZENS == 20

InitialDozens == 8

InitialSimulations == 200000

MAX_SIMULATIONS == 5000000

(* Bounds of the model *)

\* the random source yields 1..MaxJogo while a simulated ticket is drawn
MaxJogo == 9

\* the last MaxFollowed iterations of a run are followed number by number;
\* the iterations before them are summarised as tickets scoring under 4
MaxFollowed == 1

\* null, and a present value, of simulationResult
NULL == <<>>

Some(r) == <<r>>

\* the values Math.floor(Math.random() * 60) + 1 can take
Universe == 1..UNIVERSE_MAX

\* the values the random source yields while the reference draw is drawn:
\* up to renaming of the 60 numbers every reference draw is this one
GabaritoValues == {n \in Universe : n <= GABARITO_SIZE}

JogoValues == {n \in Universe : n <= MaxJogo}

\* the wager sizes the slider is moved to
DozensChoices == {d \in {MIN_DOZENS, InitialDozens} : d <= MAX_DOZENS /\ d <= MaxJogo}

\* the iteration counts typed into the input
SimulationChoices == {0, 1, CHUNK_SIZE + 1, InitialSimulations, MAX_SIMULATIONS}

----------------------------------------------------------------------------
(* Pure helpers *)

Min(a, b) == IF a < b THEN a ELSE b

\* Math.round of the non-negative rational num/den: floor(num/den + 1/2)
MathRound(num, den) == (2 * num + den) \div (2 * den)

\* the share of one batch instead of the share of all iterations so far
ProgressOfChunkOnly(done, total) ==
    MathRound((IF done < CHUNK_SIZE THEN done ELSE CHUNK_SIZE) * 100, total)

\* Math.round((chunkEnd / simulationsToRun) * 100), line 164
ProgressOf(done, total) == MathRound(done * 100, total)

SetMin(S) == CHOOSE x \in S : \A y \in S : x <= y

RECURSIVE SortAsc(_)
\* Array.from(set).sort((a,b) => a - b), lines 136 and 158
SortAsc(S) == IF S = {} THEN <<>> ELSE <<SetMin(S)>> \o SortAsc(S \ {SetMin(S)})

Range(s) == {s[x] : x \in 1..Len(s)}

\* lines 151-156: the reference numbers that the ticket has
Acertos(gabarito, jogo) == Cardinality({num \in gabarito : num \in jogo})

\* tiers shifted by one
BucketShifted(acertos) ==
    IF acertos >= 5 THEN "sena"
    ELSE IF acertos = 4 THEN "quina"
    ELSE IF acertos = 3 THEN "quadra"
    ELSE "none"

\* lines 159-161: the bucket a ticket with that many matches is pushed to
Bucket(acertos) ==
    IF acertos = 6 THEN "sena"
    ELSE IF acertos = 5 THEN "quina"
    ELSE IF acertos = 4 THEN "quadra"
    ELSE "none"

\* an iteration the model follows number by number
Followed(iter, total) == total - iter <= MaxFollowed

----------------------------------------------------------------------------
(* Text as the importer sees it: a sequence of one-character strings *)

IsSpace(c) == c \in {" ", "\t", "\n", "\r"}

IsDigit(c) == c \in {"0", "1", "2", "3", "4", "5", "6", "7", "8", "9"}

DigitValue(c) ==
    CASE c = "0" -> 0 [] c = "1" -> 1 [] c = "2" -> 2 [] c = "3" -> 3
      [] c = "4" -> 4 [] c = "5" -> 5 [] c = "6" -> 6 [] c = "7" -> 7
      [] c = "8" -> 8 [] c = "9" -> 9

RECURSIVE TrimStart(_)
TrimStart(s) ==
    IF s # <<>> /\ IsSpace(Head(s)) THEN TrimStart(Tail(s)) ELSE s

RECURSIVE TrimEnd(_)
TrimEnd(s) ==
    IF s # <<>> /\ IsSpace(s[Len(s)]) THEN TrimEnd(SubSeq(s, 1, Len(s) - 1)) ELSE s

\* String.prototype.trim
Trim(s) == TrimEnd(TrimStart(s))

\* toLowerCase on the letters the texts of the model are written with
LowerChar(c) ==
    CASE c = "A" -> "a" [] c = "C" -> "c" [] c = "D" -> "d" [] c = "E" -> "e"
      [] c = "N" -> "n" [] c = "O" -> "o" [] c = "R" -> "r" [] c = "S" -> "s"
      [] c = "T" -> "t" [] c = "U" -> "u" [] c = "Z" -> "z" [] OTHER -> c

ToLowerCase(s) == [x \in 1..Len(s) |-> LowerChar(s[x])]

\* replace(/"/g, '')
RemoveQuotes(s) == SelectSeq(s, LAMBDA c : c # "\"")

RECURSIVE SplitOn(_, _)
\* String.prototype.split on a one-character separator out of seps: one
\* piece more than there are separators, a piece may be empty
SplitOn(s, seps) ==
    IF \A x \in 1..Len(s) : s[x] \notin seps
    THEN <<s>>
    ELSE LET p == CHOOSE x \in 1..Len(s) :
                      s[x] \in seps /\ \A y \in 1..(x - 1) : s[y] \notin seps
         IN  <<SubSeq(s, 1, p - 1)>> \o SplitOn(SubSeq(s, p + 1, Len(s)), seps)

\* Array.prototype.indexOf, -1 when absent
IndexOf(arr, v) ==
    IF \E x \in 1..Len(arr) : arr[x] = v
    THEN (CHOOSE x \in 1..Len(arr) : arr[x] = v /\ \A y \in 1..(x - 1) : arr[y] # v) - 1
    ELSE -1

RECURSIVE DecimalValue(_)
DecimalValue(digits) ==
    IF digits = <<>> THEN 0
    ELSE 10 * DecimalValue(SubSeq(digits, 1, Len(digits) - 1)) + DigitValue(digits[Len(digits)])

\* a number is <<v>>, NaN is the empty tuple
NaN == <<>>

IsNaN(v) == v = NaN

\* Number(piece) on the characters of the model (digits, letters, blanks,
\* quotes): blanks are trimmed, the empty string is 0, digits are their
\* decimal value, anything else is NaN
ToNumber(s) ==
    LET t == Trim(s)
    IN  IF t = <<>> THEN <<0>>
        ELSE IF \A x \in 1..Len(t) : IsDigit(t[x]) THEN <<DecimalValue(t)>>
        ELSE NaN

RECURSIVE DigitPrefix(_)
DigitPrefix(s) ==
    IF s # <<>> /\ IsDigit(Head(s)) THEN <<Head(s)>> \o DigitPrefix(Tail(s)) ELSE <<>>

\* parseInt(field, 10): leading blanks and one sign are skipped, the longest
\* run of digits is read, none is NaN
ParseInt(s) ==
    LET t == TrimStart(s)
        neg == t # <<>> /\ Head(t) = "-"
        u == IF t # <<>> /\ Head(t) \in {"-", "+"} THEN Tail(t) ELSE t
        d == DigitPrefix(u)
    IN  IF d = <<>> THEN NaN
        ELSE IF neg THEN <<0 - DecimalValue(d)>> ELSE <<DecimalValue(d)>>

RECURSIVE InsertAsc(_, _)
InsertAsc(sorted, v) ==
    IF sorted = <<>> THEN <<v>>
    ELSE IF v < Head(sorted) THEN <<v>> \o sorted
    ELSE <<Head(sorted)>> \o InsertAsc(Tail(sorted), v)

RECURSIVE SortNumbers(_)
\* dezenas.sort((a,b) => a-b), line 233
SortNumbers(arr) ==
    IF arr = <<>> THEN <<>>
    ELSE InsertAsc(SortNumbers(SubSeq(arr, 1, Len(arr) - 1)), arr[Len(arr)])

RECURSIVE InsertByConcursoDesc(_, _)
InsertByConcursoDesc(sorted, rec) ==
    IF sorted = <<>> THEN <<rec>>
    ELSE IF rec.concurso > Head(sorted).concurso THEN <<rec>> \o sorted
    ELSE <<Head(sorted)>> \o InsertByConcursoDesc(Tail(sorted), rec)

RECURSIVE SortByConcursoDesc(_)
\* newHistory.sort((a, b) => b.concurso - a.concurso), line 241 (stable)
SortByConcursoDesc(arr) ==
    IF arr = <<>> THEN <<>>
    ELSE InsertByConcursoDesc(SortByConcursoDesc(SubSeq(arr, 1, Len(arr) - 1)), arr[Len(arr)])

\* line 193: the lines of the text that are not blank
NonEmptyRows(text) ==
    SelectSeq(SplitOn(text, {"\n", "\r"}), LAMBDA row : Trim(row) # <<>>)

\* line 196
HeaderOf(rows) ==
    LET cells == SplitOn(rows[1], {","})
    IN  [x \in 1..Len(cells) |-> RemoveQuotes(ToLowerCase(Trim(cells[x])))]

CONCURSO == <<"c", "o", "n", "c", "u", "r", "s", "o">>

DATA == <<"d", "a", "t", "a">>

DEZENAS == <<"d", "e", "z", "e", "n", "a", "s">>

\* lines 213-217
DezenasOf(field) ==
    LET pieces == SplitOn(RemoveQuotes(Trim(field)), {"-"})
    IN  [x \in 1..Len(pieces) |-> ToNumber(pieces[x])]

\* lines 207-234 for one data row: <<record>>, or <<>> when it is skipped
RecordOf(row, header) ==
    LET columns == SplitOn(row, {","})
        contestIndex == IndexOf(header, CONCURSO)
        dateIndex == IndexOf(header, DATA)
        dozensIndex == IndexOf(header, DEZENAS)
    IN  IF Len(columns) < Len(header) THEN <<>>
        ELSE LET dezenas == DezenasOf(columns[dozensIndex + 1])
                 concurso == ParseInt(columns[contestIndex + 1])
             IN  IF (\E x \in 1..Len(dezenas) : IsNaN(dezenas[x])) \/ Len(dezenas) = 0
                 THEN <<>>
                 ELSE IF IsNaN(concurso) THEN <<>>
                 ELSE << [concurso |-> concurso[1],
                          data |-> RemoveQuotes(Trim(columns[dateIndex + 1])),
                          dezenas |-> SortNumbers([x \in 1..Len(dezenas) |-> dezenas[x][1]])] >>

RECURSIVE NewHistoryOf(_, _)
\* the loop of lines 205-235 over the data rows
NewHistoryOf(dataRows, header) ==
    IF dataRows = <<>> THEN <<>>
    ELSE NewHistoryOf(SubSeq(dataRows, 1, Len(dataRows) - 1), header)
         \o RecordOf(dataRows[Len(dataRows)], header)

\* lines 187-250: what reader.onload makes of the text
Processed(text) ==
    IF text = <<>> THEN [alert |-> "read_error", history |-> <<>>]
    ELSE LET rows == NonEmptyRows(text)
         IN  IF Len(rows) < 2 THEN [alert |-> "invalid_or_empty", history |-> <<>>]
             ELSE LET header == HeaderOf(rows)
                  IN  IF \/ IndexOf(header, CONCURSO) = -1
                         \/ IndexOf(header, DATA) = -1
                         \/ IndexOf(header, DEZENAS) = -1
                      THEN [alert |-> "invalid_header", history |-> <<>>]
                      ELSE LET newHistory == NewHistoryOf(Tail(rows), header)
                           IN  IF Len(newHistory) = 0
                               THEN [alert |-> "no_valid", history |-> <<>>]
                               ELSE [alert |-> "imported",
                                     history |-> SortByConcursoDesc(newHistory)]

ErrorAlerts == {"read_error", "invalid_or_empty", "invalid_header", "no_valid"}

----------------------------------------------------------------------------
(* The files of the model *)

\* the header as the importer documents it: concurso,data,dezenas
HeaderPlain ==
    <<"c", "o", "n", "c", "u", "r", "s", "o", ",", "d", "a", "t", "a", ",",
      "d", "e", "z", "e", "n", "a", "s">>

\* quoted, upper-case and padded header cells: 'Concurso', DATA ,Dezenas
HeaderQuoted ==
    <<"\"", "C", "o", "n", "c", "u", "r", "s", "o", "\"", ",", " ", "D", "A",
      "T", "A", " ", ",", "D", "e", "z", "e", "n", "a", "s">>

\* a header without the dezenas column: concurso,data
HeaderNoDezenas ==
    <<"c", "o", "n", "c", "u", "r", "s", "o", ",", "d", "a", "t", "a">>

\* a well-formed row: 1,1996,04-08-15-16-23-42
RowGood ==
    <<"1", ",", "1", "9", "9", "6", ",", "0", "4", "-", "0", "8", "-", "1",
      "5", "-", "1", "6", "-", "2", "3", "-", "4", "2">>

\* quoted cells, the numbers not in order: 2,'1997','42-23-16-15-08-04'
RowQuoted ==
    <<"2", ",", "\"", "1", "9", "9", "7", "\"", ",", "\"", "4", "2", "-",
      "2", "3", "-", "1", "6", "-", "1", "5", "-", "0", "8", "-", "0", "4",
      "\"">>

\* fewer cells than the header: 3,1998
RowShort ==
    <<"3", ",", "1", "9", "9", "8">>

\* a piece of the numbers list is no number: 4,1999,04-xx-15-16-23-42
RowNotANumber ==
    <<"4", ",", "1", "9", "9", "9", ",", "0", "4", "-", "x", "x", "-", "1",
      "5", "-", "1", "6", "-", "2", "3", "-", "4", "2">>

\* the contest number is no number: x,2000,01-02-03-04-05-06
RowBadConcurso ==
    <<"x", ",", "2", "0", "0", "0", ",", "0", "1", "-", "0", "2", "-", "0",
      "3", "-", "0", "4", "-", "0", "5", "-", "0", "6">>

\* the numbers list is empty: 6,2001,
RowEmptyDezenas ==
    <<"6", ",", "2", "0", "0", "1", ",">>

\* only three numbers in the list: 7,2002,04-08-15
RowThreeDezenas ==
    <<"7", ",", "2", "0", "0", "2", ",", "0", "4", "-", "0", "8", "-", "1",
      "5">>

HeaderLines == {HeaderPlain, HeaderQuoted, HeaderNoDezenas}

RowLines == {RowGood, RowQuoted, RowShort, RowNotANumber, RowBadConcurso,
             RowEmptyDezenas, RowThreeDezenas}

\* a file has at most MaxRows data rows
MaxRows == 2

RECURSIVE JoinLines(_)
JoinLines(lines) ==
    IF lines = <<>> THEN <<>>
    ELSE IF Len(lines) = 1 THEN lines[1]
    ELSE lines[1] \o <<"\r", "\n">> \o JoinLines(Tail(lines))

\* the empty file, and a header line followed by up to MaxRows rows
FileTexts ==
    {<<>>} \cup
    {JoinLines(<<h>> \o rs) :
        h \in HeaderLines, rs \in UNION {[1..n -> RowLines] : n \in 0..MaxRows}}

----------------------------------------------------------------------------
(* The bundled seed data (./megasena-history is not among the sources) *)

MEGASENA_HISTORY ==
    << [concurso |-> 2, data |-> <<"1", "9", "9", "6">>,
        dezenas |-> <<9, 37, 39, 41, 43, 49>>],
       [concurso |-> 1, data |-> <<"1", "9", "9", "6">>,
        dezenas |-> <<4, 5, 30, 33, 41, 52>>] >>

----------------------------------------------------------------------------
\* the state after construction but for the wager size: the memo of
\* betDetails is yet to be computed by the first render
InitButDozens ==
    /\ betPc = "total"
    /\ TOTAL_COMBINACOES_SENA = 0
    /\ numeroDeApostas = 0
    /\ probabilidadeSena = NULL
    /\ combN = 0
    /\ combK = 0
    /\ combI = 0
    /\ combRes = 0
    /\ combExact = TRUE
    /\ simulationsToRun = InitialSimulations
    /\ isSimulating = FALSE
    /\ simulationProgress = 0
    /\ simulationResult = NULL
    /\ megaSenaHistory = MEGASENA_HISTORY
    /\ pc = "idle"
    /\ runN = 0
    /\ runK = 0
    /\ sorteioGabarito = {}
    /\ senaJogos = <<>>
    /\ quinaJogos = <<>>
    /\ quadraJogos = <<>>
    /\ i = 0
    /\ chunkEnd = 0
    /\ j = 0
    /\ jogoSimulado = {}
    /\ lastAcertos = 0
    /\ drawn = 0
    /\ batches = 0
    /\ published = 0
    /\ yields = 0
    /\ prevProgress = 0
    /\ pendingText = NULL
    /\ lastAlert = "none"

Init ==
    /\ dozensToBet = InitialDozens
    /\ InitButDozens

----------------------------------------------------------------------------
(* User actions on the controls *)

\* line 297: the slider is never disabled
SetDozensToBet(d) ==
    /\ pc \in {"idle", "await"}
    /\ dozensToBet' = d
    /\ UNCHANGED <<simulationsToRun, isSimulating, simulationProgress,
                   simulationResult, pc, runN, runK, sorteioGabarito, senaJogos,
                   quinaJogos, quadraJogos, i, chunkEnd, j, jogoSimulado,
                   lastAcertos, drawn, batches, published, yields, prevProgress>>
    /\ UNCHANGED <<importVars, betVars>>

\* lines 403-405: the input is disabled while isSimulating
SetSimulationsToRun(n) ==
    /\ pc \in {"idle", "await"}
    /\ ~isSimulating
    /\ simulationsToRun' = n
    /\ UNCHANGED <<dozensToBet, isSimulating, simulationProgress,
                   simulationResult, pc, runN, runK, sorteioGabarito, senaJogos,
                   quinaJogos, quadraJogos, i, chunkEnd, j, jogoSimulado,
                   lastAcertos, drawn, batches, published, yields, prevProgress>>
    /\ UNCHANGED <<importVars, betVars>>

----------------------------------------------------------------------------
(* handleRunSimulation, lines 127-178 *)

\* a run that forgets setSimulationResult(null)
ResetPublishedKeepingResult ==
    /\ isSimulating' = TRUE
    /\ simulationProgress' = 0
    /\ prevProgress' = 0
    /\ UNCHANGED simulationResult

\* lines 128-130
ResetPublished ==
    /\ isSimulating' = TRUE
    /\ simulationProgress' = 0
    /\ prevProgress' = 0
    /\ simulationResult' = NULL

\* the button were it to stay enabled during a run
RunButtonNeverDisabled == FALSE

\* line 407: disabled={isSimulating}
RunButtonDisabled == isSimulating

\* the click, possible like every user action while no handler is on the
\* stack and the button is enabled, and lines 128-132
StartRun ==
    /\ pc \in {"idle", "await"}
    /\ ~RunButtonDisabled
    /\ ResetPublished
    /\ runN' = simulationsToRun
    /\ runK' = dozensToBet
    /\ sorteioGabarito' = {}
    /\ senaJogos' = <<>>
    /\ quinaJogos' = <<>>
    /\ quadraJogos' = <<>>
    /\ i' = 0
    /\ chunkEnd' = 0
    /\ j' = 0
    /\ jogoSimulado' = {}
    /\ lastAcertos' = 0
    /\ drawn' = 0
    /\ batches' = 0
    /\ published' = 0
    /\ yields' = 0
    /\ pc' = "gabarito"
    /\ UNCHANGED <<dozensToBet, simulationsToRun>>
    /\ UNCHANGED <<importVars, betVars>>

\* one turn of the loop of lines 133-135; a number already in the set
\* leaves it as it is.  With the sixth number the loop ends (lines 136-143)
DrawGabarito(n) ==
    /\ pc = "gabarito"
    /\ Cardinality(sorteioGabarito) < GABARITO_SIZE
    /\ sorteioGabarito' = sorteioGabarito \cup {n}
    /\ pc' = IF Cardinality(sorteioGabarito') < GABARITO_SIZE THEN "gabarito" ELSE "for"
    /\ UNCHANGED <<dozensToBet, simulationsToRun, isSimulating, simulationProgress,
                   simulationResult, runN, runK, senaJogos, quinaJogos,
                   quadraJogos, i, chunkEnd, j, jogoSimulado, lastAcertos, drawn,
                   batches, published, yields, prevProgress>>
    /\ UNCHANGED <<importVars, betVars>>

\* lines 143-145: the loop test holds, a batch begins
BeginBatch ==
    /\ pc = "for"
    /\ i < runN
    /\ chunkEnd' = Min(i + CHUNK_SIZE, runN)
    /\ j' = i
    /\ jogoSimulado' = {}
    /\ batches' = batches + 1
    /\ pc' = "inner"
    /\ UNCHANGED <<dozensToBet, simulationsToRun, isSimulating, simulationProgress,
                   simulationResult, runN, runK, sorteioGabarito, senaJogos,
                   quinaJogos, quadraJogos, i, lastAcertos, drawn, published,
                   yields, prevProgress>>
    /\ UNCHANGED <<importVars, betVars>>

\* lines 145-162 for the iterations the model does not follow: each draws a
\* ticket that scores under 4 and is pushed nowhere
SimulateLosers ==
    /\ pc = "inner"
    /\ j < chunkEnd
    /\ ~Followed(j, runN)
    /\ j' = Min(chunkEnd, runN - MaxFollowed)
    /\ drawn' = drawn + (j' - j)
    /\ UNCHANGED <<dozensToBet, simulationsToRun, isSimulating, simulationProgress,
                   simulationResult, pc, runN, runK, sorteioGabarito, senaJogos,
                   quinaJogos, quadraJogos, i, chunkEnd, jogoSimulado, lastAcertos,
                   batches, published, yields, prevProgress>>
    /\ UNCHANGED <<importVars, betVars>>

\* the size of a ticket were line 147 to read the slider's present value
TicketSizeLive == dozensToBet

\* line 147: dozensToBet there is the value the handler's closure holds, the
\* wager size of the render the run was started from
TicketSize == runK

\* one turn of the loop of lines 147-149 in a followed iteration; with the
\* last number the ticket is scored and pushed (lines 151-161) and the next
\* iteration starts with a new empty set (line 146)
DrawJogo(n) ==
    /\ pc = "inner"
    /\ j < chunkEnd
    /\ Followed(j, runN)
    /\ Cardinality(jogoSimulado) < TicketSize
    /\ LET jogo == jogoSimulado \cup {n}
           acertos == Acertos(sorteioGabarito, jogo)
           jogoSimuladoArray == SortAsc(jogo)
       IN  IF Cardinality(jogo) < TicketSize
           THEN /\ jogoSimulado' = jogo
                /\ UNCHANGED <<senaJogos, quinaJogos, quadraJogos, j, drawn,
                               lastAcertos>>
           ELSE /\ senaJogos' = IF Bucket(acertos) = "sena"
                                THEN Append(senaJogos, jogoSimuladoArray)
                                ELSE senaJogos
                /\ quinaJogos' = IF Bucket(acertos) = "quina"
                                 THEN Append(quinaJogos, jogoSimuladoArray)
                                 ELSE quinaJogos
                /\ quadraJogos' = IF Bucket(acertos) = "quadra"
                                  THEN Append(quadraJogos, jogoSimuladoArray)
                                  ELSE quadraJogos
                /\ lastAcertos' = acertos
                /\ jogoSimulado' = {}
                /\ j' = j + 1
                /\ drawn' = drawn + 1
    /\ UNCHANGED <<dozensToBet, simulationsToRun, isSimulating, simulationProgress,
                   simulationResult, pc, runN, runK, sorteioGabarito, i, chunkEnd,
                   batches, published, yields, prevProgress>>
    /\ UNCHANGED <<importVars, betVars>>

\* lines 164-165: the batch is over, progress is published and the handler
\* suspends on the timer
PublishProgress ==
    /\ pc = "inner"
    /\ j = chunkEnd
    /\ simulationProgress' = ProgressOf(chunkEnd, runN)
    /\ prevProgress' = simulationProgress
    /\ published' = published + 1
    /\ pc' = "await"
    /\ UNCHANGED <<dozensToBet, simulationsToRun, isSimulating, simulationResult,
                   runN, runK, sorteioGabarito, senaJogos, quinaJogos, quadraJogos,
                   i, chunkEnd, j, jogoSimulado, lastAcertos, drawn, batches,
                   yields>>
    /\ UNCHANGED <<importVars, betVars>>

\* a batch that starts one iteration late
NextChunkStartSkippingOne(start) == start + CHUNK_SIZE + 1

\* i += CHUNK_SIZE, line 143
NextChunkStart(start) == start + CHUNK_SIZE

\* the timer of line 165 fires and the loop goes on with its increment
Resume ==
    /\ pc = "await"
    /\ i' = NextChunkStart(i)
    /\ yields' = yields + 1
    /\ pc' = "for"
    /\ UNCHANGED <<dozensToBet, simulationsToRun, isSimulating, simulationProgress,
                   simulationResult, runN, runK, sorteioGabarito, senaJogos,
                   quinaJogos, quadraJogos, chunkEnd, j, jogoSimulado, lastAcertos,
                   drawn, batches, published, prevProgress>>
    /\ UNCHANGED <<importVars, betVars>>

\* a handler that forgets setIsSimulating(false)
PublishResultStillSimulating ==
    /\ simulationResult' = Some([senas |-> Len(senaJogos),
                                 quinas |-> Len(quinaJogos),
                                 quadras |-> Len(quadraJogos),
                                 senaJogos |-> senaJogos,
                                 quinaJogos |-> quinaJogos,
                                 quadraJogos |-> quadraJogos,
                                 sorteioUsado |-> SortAsc(sorteioGabarito)])
    /\ UNCHANGED isSimulating
    /\ pc' = "idle"
    /\ UNCHANGED <<dozensToBet, simulationsToRun, simulationProgress, runN, runK,
                   sorteioGabarito, senaJogos, quinaJogos, quadraJogos, i,
                   chunkEnd, j, jogoSimulado, lastAcertos, drawn, batches,
                   published, yields, prevProgress>>
    /\ UNCHANGED <<importVars, betVars>>

\* lines 168-177: the result is published and the run is over
PublishResult ==
    /\ simulationResult' = Some([senas |-> Len(senaJogos),
                                 quinas |-> Len(quinaJogos),
                                 quadras |-> Len(quadraJogos),
                                 senaJogos |-> senaJogos,
                                 quinaJogos |-> quinaJogos,
                                 quadraJogos |-> quadraJogos,
                                 sorteioUsado |-> SortAsc(sorteioGabarito)])
    /\ isSimulating' = FALSE
    /\ pc' = "idle"
    /\ UNCHANGED <<dozensToBet, simulationsToRun, simulationProgress, runN, runK,
                   sorteioGabarito, senaJogos, quinaJogos, quadraJogos, i,
                   chunkEnd, j, jogoSimulado, lastAcertos, drawn, batches,
                   published, yields, prevProgress>>
    /\ UNCHANGED <<importVars, betVars>>

\* a loop that may leave before its test fails
FinishRunAtAnyBatch ==
    /\ pc = "for"
    /\ PublishResult

\* line 143: the loop test fails, and lines 168-177
FinishRun ==
    /\ pc = "for"
    /\ ~(i < runN)
    /\ PublishResult

----------------------------------------------------------------------------
(* The history importer, lines 180-269 *)

\* lines 180-184 and 263: a file is chosen and its read begins
HandleFileUpload(text) ==
    /\ pc \in {"idle", "await"}
    /\ pendingText = NULL
    /\ pendingText' = Some(text)
    /\ UNCHANGED <<megaSenaHistory, lastAlert>>
    /\ UNCHANGED <<simVars, betVars>>

\* reader.onload were it to merge the accepted records into the store
ReaderOnLoadMerging ==
    /\ pc \in {"idle", "await"}
    /\ pendingText # NULL
    /\ LET done == Processed(pendingText[1])
       IN  /\ lastAlert' = done.alert
           /\ megaSenaHistory' = IF done.alert = "imported"
                                 THEN SortByConcursoDesc(megaSenaHistory \o done.history)
                                 ELSE megaSenaHistory
    /\ pendingText' = NULL
    /\ UNCHANGED <<simVars, betVars>>

\* reader.onload, lines 185-256
ReaderOnLoad ==
    /\ pc \in {"idle", "await"}
    /\ pendingText # NULL
    /\ LET done == Processed(pendingText[1])
       IN  /\ lastAlert' = done.alert
           /\ megaSenaHistory' = IF done.alert = "imported"
                                 THEN done.history
                                 ELSE megaSenaHistory
    /\ pendingText' = NULL
    /\ UNCHANGED <<simVars, betVars>>

\* reader.onerror, lines 257-262
ReaderOnError ==
    /\ pc \in {"idle", "await"}
    /\ pendingText # NULL
    /\ lastAlert' = "read_error"
    /\ pendingText' = NULL
    /\ UNCHANGED megaSenaHistory
    /\ UNCHANGED <<simVars, betVars>>

\* lines 266-269
HandleRestoreDefaultHistory ==
    /\ pc \in {"idle", "await"}
    /\ megaSenaHistory' = MEGASENA_HISTORY
    /\ lastAlert' = "restored"
    /\ UNCHANGED pendingText
    /\ UNCHANGED <<simVars, betVars>>

ImportNext ==
    \/ \E text \in FileTexts : HandleFileUpload(text)
    \/ ReaderOnLoad
    \/ ReaderOnError
    \/ HandleRestoreDefaultHistory

\* the importer alone: it reads and writes none of the simulation's state
ImportSpec == Init /\ [][ImportNext]_vars

----------------------------------------------------------------------------
(* The odds of a wager: PROBABILIDADES_OFICIAIS, combinations and betDetails *)

\* lines 7-23
PROBABILIDADES_OFICIAIS ==
    [s \in MIN_DOZENS..MAX_DOZENS |->
        CASE s = 6  -> [sena |-> 50063860, quina |-> 154518, quadra |-> 2332]
          [] s = 7  -> [sena |-> 7151980, quina |-> 44981, quadra |-> 1038]
          [] s = 8  -> [sena |-> 1787995, quina |-> 17192, quadra |-> 539]
          [] s = 9  -> [sena |-> 595998, quina |-> 7791, quadra |-> 312]
          [] s = 10 -> [sena |-> 238399, quina |-> 3973, quadra |-> 195]
          [] s = 11 -> [sena |-> 108363, quina |-> 2211, quadra |-> 129]
          [] s = 12 -> [sena |-> 54182, quina |-> 1317, quadra |-> 90]
          [] s = 13 -> [sena |-> 29175, quina |-> 828, quadra |-> 65]
          [] s = 14 -> [sena |-> 16671, quina |-> 544, quadra |-> 48]
          [] s = 15 -> [sena |-> 10003, quina |-> 370, quadra |-> 37]
          [] s = 16 -> [sena |-> 6252, quina |-> 260, quadra |-> 29]
          [] s = 17 -> [sena |-> 4045, quina |-> 188, quadra |-> 23]
          [] s = 18 -> [sena |-> 2697, quina |-> 139, quadra |-> 19]
          [] s = 19 -> [sena |-> 1845, quina |-> 105, quadra |-> 16]
          [] s = 20 -> [sena |-> 1292, quina |-> 81, quadra |-> 13]]

\* the first argument of the call the memo is in: lines 99 and 100
CombinationsN == IF betPc = "total" THEN UNIVERSE_MAX ELSE dozensToBet

\* combinations returns value to the memo: line 99 or line 100
CombinationsReturns(value) ==
    IF betPc \in {"total", "total_loop"}
    THEN /\ TOTAL_COMBINACOES_SENA' = value
         /\ betPc' = "apostas"
         /\ UNCHANGED numeroDeApostas
    ELSE /\ numeroDeApostas' = value
         /\ betPc' = "quotient"
         /\ UNCHANGED TOTAL_COMBINACOES_SENA

\* lines 26-29: the early returns, the smaller of k and n - k, res = 1
CombinationsCall ==
    /\ betPc \in {"total", "apostas"}
    /\ LET n == CombinationsN
           k == GABARITO_SIZE
       IN  IF k < 0 \/ k > n
           THEN CombinationsReturns(0) /\ UNCHANGED <<combN, combK, combI, combRes>>
           ELSE IF k = 0 \/ k = n
           THEN CombinationsReturns(1) /\ UNCHANGED <<combN, combK, combI, combRes>>
           ELSE /\ combN' = n
                /\ combK' = IF 2 * k > n THEN n - k ELSE k
                /\ combRes' = 1
                /\ combI' = 1
                /\ betPc' = IF betPc = "total" THEN "total_loop" ELSE "apostas_loop"
                /\ UNCHANGED <<TOTAL_COMBINACOES_SENA, numeroDeApostas>>
    /\ UNCHANGED <<probabilidadeSena, combExact>>
    /\ UNCHANGED <<simVars, importVars>>

\* the body of the loop were it to take n - i for n - i + 1
LoopBodyOffByOne(r, n, x) == (r * (n - x)) \div x

\* line 31: res = (res * (n - i + 1)) / i
LoopBody(r, n, x) == (r * (n - x + 1)) \div x

\* lines 30-32, one turn of the loop; the division is one of doubles, and
\* is the integer division here as long as it comes out whole
CombinationsStep ==
    /\ betPc \in {"total_loop", "apostas_loop"}
    /\ combI <= combK
    /\ combRes' = LoopBody(combRes, combN, combI)
    /\ combExact' = (combExact /\ (combRes * (combN - combI + 1)) % combI = 0)
    /\ combI' = combI + 1
    /\ UNCHANGED <<betPc, TOTAL_COMBINACOES_SENA, numeroDeApostas,
                   probabilidadeSena, combN, combK>>
    /\ UNCHANGED <<simVars, importVars>>

\* line 33: return Math.round(res)
CombinationsReturn ==
    /\ betPc \in {"total_loop", "apostas_loop"}
    /\ ~(combI <= combK)
    /\ CombinationsReturns(MathRound(combRes, 1))
    /\ UNCHANGED <<probabilidadeSena, combN, combK, combI, combRes, combExact>>
    /\ UNCHANGED <<simVars, importVars>>

\* lines 102-103: the quotient of the two counts, kept as the pair of them
BetDetailsQuotient ==
    /\ betPc = "quotient"
    /\ probabilidadeSena' = Some(<<TOTAL_COMBINACOES_SENA, numeroDeApostas>>)
    /\ betPc' = "done"
    /\ UNCHANGED <<TOTAL_COMBINACOES_SENA, numeroDeApostas, combN, combK, combI,
                   combRes, combExact>>
    /\ UNCHANGED <<simVars, importVars>>

\* lines 36 and 304: formatInteger shows the quotient with no fraction digits
ChanceDeSena ==
    MathRound(probabilidadeSena[1][1], probabilidadeSena[1][2])

\* the memo for any place of the slider (lines 294-297)
BetInit ==
    /\ dozensToBet \in MIN_DOZENS..MAX_DOZENS
    /\ InitButDozens

BetNext ==
    \/ CombinationsCall
    \/ CombinationsStep
    \/ CombinationsReturn
    \/ BetDetailsQuotient

BetSpec == BetInit /\ [][BetNext]_vars

----------------------------------------------------------------------------
Next ==
    \/ \E d \in DozensChoices : SetDozensToBet(d)
    \/ \E n \in SimulationChoices : SetSimulationsToRun(n)
    \/ StartRun
    \/ \E n \in GabaritoValues : DrawGabarito(n)
    \/ BeginBatch
    \/ SimulateLosers
    \/ \E n \in JogoValues : DrawJogo(n)
    \/ PublishProgress
    \/ Resume
    \/ FinishRun

Spec == Init /\ [][Next]_vars

\* the code running, the timer of line 165 firing, and a random source that
\* in time yields a number the set does not have yet
Fairness ==
    /\ WF_vars(\E n \in GabaritoValues : DrawGabarito(n))
    /\ WF_vars(BeginBatch)
    /\ WF_vars(SimulateLosers)
    /\ WF_vars(\E n \in JogoValues : DrawJogo(n))
    /\ WF_vars(PublishProgress)
    /\ WF_vars(Resume)
    /\ WF_vars(FinishRun)

FairSpec == Spec /\ Fairness

----------------------------------------------------------------------------
(* The simulation engine *)

Running == isSimulating

Completed == ~isSimulating /\ simulationResult # NULL

\* the matches of a pushed ticket against the recorded reference draw
MatchesOf(ticket, sorteioUsado) ==
    Cardinality({x \in 1..Len(ticket) : \E y \in 1..Len(sorteioUsado) : ticket[x] = sorteioUsado[y]})

\* line 428: the iteration count shown beside the result
JogosSimulados == simulationsToRun

\* C1: over a run with N > 0 each published progress value is at least the
\* one before it (the first one before is the 0 of the start), and when the
\* run has completed the last published value is 100.
C1_ProgressNonDecreasingTo100 ==
    /\ prevProgress <= simulationProgress
    /\ (Completed /\ runN > 0) => simulationProgress = 100

C1_Witness ==
    /\ Completed
    /\ runN = InitialSimulations
    /\ prevProgress = 95
    /\ simulationProgress = 100

\* C2: after a batch that is not the last one (fewer than N iterations
\* done) the published progress is below 100.
C2_HundredOnlyAtCompletion ==
    (pc = "await" /\ runN > 0 /\ chunkEnd < runN) => simulationProgress < 100

\* C3: a run that is Running stays Running until all its batches are done
\* and its result is published; the engine is not-running only with no
\* handler at work and no iteration of the run left.
C3_RunningLeavesOnlyByCompleting ==
    /\ [][Running => (Running' \/ (~(i < runN) /\ drawn = runN /\ Completed'))]_vars
    /\ [](~Running => (pc = "idle" /\ drawn = runN))

C3_Witness ==
    /\ Running
    /\ pc = "await"
    /\ 0 < drawn
    /\ drawn < runN
    /\ yields > 0

\* C4: a result is exposed only when the run that made it has done all N
\* iterations; while a run is Running the result is null, whatever the
\* buckets of the run hold.
C4_ResultOnlyAfterCompletion ==
    /\ simulationResult # NULL => (~Running /\ pc = "idle" /\ drawn = runN /\ ~(i < runN))
    /\ Running => simulationResult = NULL

C4_Witness ==
    /\ Running
    /\ pc = "await"
    /\ Len(senaJogos) + Len(quinaJogos) + Len(quadraJogos) > 0
    /\ simulationResult = NULL
    /\ runN > CHUNK_SIZE

\* C5: in a result every ticket of senaJogos has 6 numbers of sorteioUsado,
\* every ticket of quinaJogos 5 and every ticket of quadraJogos 4 (so none
\* has under 4); senas, quinas and quadras are the lengths of the lists and
\* their sum is at most N.
C5_BucketsMatchTiers ==
    simulationResult # NULL =>
        LET r == simulationResult[1] IN
        /\ \A t \in Range(r.senaJogos) : MatchesOf(t, r.sorteioUsado) = 6
        /\ \A t \in Range(r.quinaJogos) : MatchesOf(t, r.sorteioUsado) = 5
        /\ \A t \in Range(r.quadraJogos) : MatchesOf(t, r.sorteioUsado) = 4
        /\ r.senas = Len(r.senaJogos)
        /\ r.quinas = Len(r.quinaJogos)
        /\ r.quadras = Len(r.quadraJogos)
        /\ r.senas + r.quinas + r.quadras <= runN
        /\ (lastAcertos < 4 /\ runN > 0) => r.senas + r.quinas + r.quadras < runN

C5_Witness ==
    /\ simulationResult # NULL
    /\ simulationResult[1].quadras = 1
    /\ simulationResult[1].senas + simulationResult[1].quinas = 0
    /\ runN = 1
    /\ runK = MIN_DOZENS

\* C6: the iteration count shown with a result is the N of the run that
\* made the result.
C6_ReportedCountIsRunCount ==
    simulationResult # NULL => JogosSimulados = runN

\* C7: a batch has at most CHUNK_SIZE iterations and starts where the one
\* before ended; the tickets drawn are exactly the iterations passed, one
\* each; between two batches lie exactly one publication and one yield; a
\* completed run has drawn exactly N tickets.
C7_BatchesPublishAndYield ==
    /\ pc \in {"inner", "await"} =>
          /\ chunkEnd - i <= CHUNK_SIZE
          /\ i = (batches - 1) * CHUNK_SIZE
          /\ i <= j /\ j <= chunkEnd /\ chunkEnd <= runN
          /\ drawn = j
    /\ pc = "inner" => (published = batches - 1 /\ yields = batches - 1)
    /\ pc = "await" => (j = chunkEnd /\ published = batches /\ yields = batches - 1)
    /\ pc = "for" => (drawn = chunkEnd /\ published = batches /\ yields = batches
                      /\ (i < runN => i = chunkEnd))
    /\ Completed => (drawn = runN /\ published = batches /\ yields = batches
                     /\ (batches - 1) * CHUNK_SIZE < runN + CHUNK_SIZE
                     /\ runN <= batches * CHUNK_SIZE)

C7_Witness ==
    /\ Completed
    /\ runN = CHUNK_SIZE + 1
    /\ batches = 2
    /\ drawn = CHUNK_SIZE + 1

\* C8: under the fairness of the scheduler and of the random source, a run
\* started with k in 6..20 and N > 0 reaches Completed: its result is
\* published and isSimulating is false again.
C8_RunCompletes ==
    (Running /\ runN > 0 /\ runK \in MIN_DOZENS..MAX_DOZENS) ~> Completed

C8_Witness ==
    /\ Completed
    /\ runN = MAX_SIMULATIONS
    /\ batches * CHUNK_SIZE = MAX_SIMULATIONS
    /\ simulationProgress = 100


\* a ticket of exactly size distinct numbers, ascending
TicketOfSize(t, size) ==
    /\ Len(t) = size
    /\ \A x, y \in 1..Len(t) : x < y => t[x] < t[y]

\* C14: every ticket a run draws has the wager size the run was started
\* with, whatever the slider is moved to between the batches: the tickets
\* in the buckets of the run and in its result all have runK numbers, and
\* the ticket being drawn never has more.
C14_TicketsKeepStartingSize ==
    /\ \A t \in Range(senaJogos) \cup Range(quinaJogos) \cup Range(quadraJogos) :
            TicketOfSize(t, runK)
    /\ simulationResult # NULL =>
            \A t \in Range(simulationResult[1].senaJogos)
                     \cup Range(simulationResult[1].quinaJogos)
                     \cup Range(simulationResult[1].quadraJogos) :
                TicketOfSize(t, runK)
    /\ Cardinality(jogoSimulado) <= runK
    /\ (Running /\ pc = "inner") => Cardinality(jogoSimulado) < runK

\* the slider went from 8 to 6 in the await after the first batch, and the
\* second batch has put its ticket of 8 numbers into a bucket
C14_Witness ==
    /\ Running
    /\ pc = "inner"
    /\ batches = 2
    /\ j = chunkEnd
    /\ runK = InitialDozens
    /\ dozensToBet = MIN_DOZENS
    /\ Len(quinaJogos) = 1
    /\ Len(quinaJogos[1]) = InitialDozens

\* a step in which an invocation of handleRunSimulation begins: the handler
\* comes to its first loop from a place where user actions are possible
RunStarts == pc \in {"idle", "await"} /\ pc' = "gabarito"

\* C15: at most one run is in progress at a time.  A handler at work or
\* suspended on its timer means isSimulating; a run starts only when no
\* handler is at work or suspended and isSimulating is false; and while a
\* handler is at work or suspended the N and k of the run, to which the
\* published progress and the result belong, stay as they are.
C15_OneRunAtATime ==
    /\ [](pc # "idle" => Running)
    /\ [][RunStarts => (pc = "idle" /\ ~Running)]_vars
    /\ [][pc # "idle" => (runN' = runN /\ runK' = runK)]_vars

\* a run is suspended between its two batches, the button disabled
C15_Witness ==
    /\ Running
    /\ pc = "await"
    /\ RunButtonDisabled
    /\ runN = CHUNK_SIZE + 1
    /\ runK = MIN_DOZENS
    /\ simulationsToRun = runN
    /\ published = 1
    /\ chunkEnd < runN

----------------------------------------------------------------------------
(* The importer *)

ValidHeader(header) ==
    /\ IndexOf(header, CONCURSO) # -1
    /\ IndexOf(header, DATA) # -1
    /\ IndexOf(header, DEZENAS) # -1

\* a numbers-list cell with nothing in it, or with a piece that is no number
NumbersListInvalid(field) ==
    LET list == RemoveQuotes(Trim(field))
        pieces == SplitOn(list, {"-"})
    IN  \/ list = <<>>
        \/ \E x \in 1..Len(pieces) : IsNaN(ToNumber(pieces[x]))

\* a data row the importer is to skip
RowMalformed(row, header) ==
    LET columns == SplitOn(row, {","})
    IN  \/ Len(columns) < Len(header)
        \/ NumbersListInvalid(columns[IndexOf(header, DEZENAS) + 1])
        \/ IsNaN(ParseInt(columns[IndexOf(header, CONCURSO) + 1]))

\* only a header, under two lines, or every data row malformed
TotalFailure(text) ==
    LET rows == NonEmptyRows(text)
    IN  \/ Len(rows) < 2
        \/ /\ ValidHeader(HeaderOf(rows))
           /\ \A x \in 2..Len(rows) : RowMalformed(rows[x], HeaderOf(rows))

\* the data rows of a text that are not malformed
RowsKept(text) ==
    LET rows == NonEmptyRows(text)
    IN  SelectSeq(Tail(rows), LAMBDA row : ~RowMalformed(row, HeaderOf(rows)))

\* C9: an import of a text with only a header, with under two non-empty
\* lines or with every data row malformed ends in an error and leaves
\* megaSenaHistory as it was.
C9_TotalFailureLeavesStore ==
    [][(ReaderOnLoad /\ TotalFailure(pendingText[1])) =>
            (lastAlert' \in ErrorAlerts /\ megaSenaHistory' = megaSenaHistory)]_vars

\* C10: in an import with a valid header the malformed rows are skipped: when
\* a row is left the import succeeds and the store holds one record for each
\* row left and none for a malformed row.
C10_MalformedRowsSkipped ==
    [][(/\ ReaderOnLoad
        /\ Len(NonEmptyRows(pendingText[1])) >= 2
        /\ ValidHeader(HeaderOf(NonEmptyRows(pendingText[1])))
        /\ Len(RowsKept(pendingText[1])) >= 1) =>
            (/\ lastAlert' = "imported"
             /\ Len(megaSenaHistory') = Len(RowsKept(pendingText[1])))]_vars

\* the number of places of a list that hold a record
CountOf(list, rec) ==
    Cardinality({x \in 1..Len(list) : list[x] = rec})

\* two lists hold the same records, each as often
SameRecords(a, b) ==
    /\ Len(a) = Len(b)
    /\ \A rec \in Range(a) \cup Range(b) : CountOf(a, rec) = CountOf(b, rec)

\* the records the row loop of lines 205-235 accepts from a text, in file order
AcceptedOf(text) ==
    LET rows == NonEmptyRows(text)
    IN  NewHistoryOf(Tail(rows), HeaderOf(rows))

OrderedByConcursoDesc(list) ==
    \A x, y \in 1..Len(list) : x < y => list[x].concurso >= list[y].concurso

\* a step that ends a read with the success alert
SuccessfulImport ==
    /\ pendingText # NULL
    /\ pendingText' = NULL
    /\ lastAlert' = "imported"

\* C11: after a successful import megaSenaHistory holds exactly the records
\* accepted from the text, by contest number descending, and nothing of what
\* it held before; the store changes only in a successful import or in a
\* restore, and a restore always leaves the bundled seed data.
C11_StoreReplacedWhole ==
    /\ [][SuccessfulImport =>
            /\ SameRecords(megaSenaHistory', AcceptedOf(pendingText[1]))
            /\ OrderedByConcursoDesc(megaSenaHistory')]_vars
    /\ [][megaSenaHistory' # megaSenaHistory =>
            \/ SuccessfulImport
            \/ (lastAlert' = "restored" /\ megaSenaHistory' = MEGASENA_HISTORY)]_vars
    /\ [](lastAlert = "restored" => megaSenaHistory = MEGASENA_HISTORY)

\* two rows in ascending file order were imported over the seed data
C11_Witness ==
    /\ lastAlert = "imported"
    /\ Len(megaSenaHistory) = 2
    /\ megaSenaHistory[1].concurso = 2
    /\ megaSenaHistory[2].concurso = 1
    /\ megaSenaHistory[2].dezenas = <<4, 8, 15, 16, 23, 42>>
    /\ \A x \in 1..2 : CountOf(MEGASENA_HISTORY, megaSenaHistory[x]) = 0

\* a record as the data model has it: a positive contest number and six
\* distinct numbers of the universe in ascending order
WellFormedContest(rec) ==
    /\ rec.concurso \in Nat \ {0}
    /\ Len(rec.dezenas) = GABARITO_SIZE
    /\ \A x \in 1..Len(rec.dezenas) : rec.dezenas[x] \in Universe
    /\ \A x, y \in 1..Len(rec.dezenas) : x < y => rec.dezenas[x] < rec.dezenas[y]

\* C12: from well-formed seed data on, after any imports and restores every
\* record of megaSenaHistory has a positive contest number and exactly six
\* distinct numbers of 1..60 in ascending order.
C12_RecordsWellFormed ==
    \A x \in 1..Len(megaSenaHistory) : WellFormedContest(megaSenaHistory[x])

----------------------------------------------------------------------------
(* The odds *)

RECURSIVE Binomial(_, _)
\* the binomial coefficient by Pascal's rule
Binomial(n, k) ==
    IF k < 0 \/ k > n THEN 0
    ELSE IF k = 0 \/ k = n THEN 1
    ELSE Binomial(n - 1, k - 1) + Binomial(n - 1, k)

\* C13: combinations(60, 6) is 50063860; for every wager size s of 6..20
\* combinations(s, 6) is the binomial coefficient, reached with every
\* division of the loop coming out whole, and combinations(60, 6) /
\* combinations(s, 6) to the nearest integer is the sena value of s in
\* PROBABILIDADES_OFICIAIS (1787995 for s = 8).
C13_OddsMatchTable ==
    /\ combExact
    /\ betPc \in {"apostas", "apostas_loop", "quotient", "done"} =>
            TOTAL_COMBINACOES_SENA = 50063860
    /\ betPc \in {"quotient", "done"} =>
            numeroDeApostas = Binomial(dozensToBet, GABARITO_SIZE)
    /\ betPc = "done" =>
            /\ ChanceDeSena = PROBABILIDADES_OFICIAIS[dozensToBet].sena
            /\ dozensToBet = 8 => ChanceDeSena = 1787995

C13_Witness ==
    /\ betPc = "done"
    /\ dozensToBet = 13
    /\ numeroDeApostas = 1716
    /\ ChanceDeSena = 29175

====
